---- MODULE Spec2Model ----
(***************************************************************************)
(* The embedding worker of ocr-provenance (python/embedding_worker.py):    *)
(* device resolution, the process-wide model cache, the out-of-memory      *)
(* backoff loop and the fail-soft result record of generate_embeddings.    *)
(*                                                                         *)
(* Python values are modelled as follows.  A str is a TLA+ string.  An     *)
(* optional value (None or x) is the tuple <<>> or <<x>>.  An exception is *)
(* a record [type, msg, model_path].  A model handle is a record           *)
(* [id, device, dim]: id is the ordinal of the SentenceTransformer(...)    *)
(* construction that produced it.  An embedding vector is the record       *)
(* [of |-> text]: the pretrained model is opaque, so a vector is           *)
(* identified by the text that was handed to the model.                    *)
(***************************************************************************)
EXTENDS Integers, Sequences, FiniteSets, TLC

VARIABLES
    hw,          \* what torch reports: [cuda : BOOLEAN, mps : MpsStates]
    fs,          \* MODEL_PATH on disk: [dir, files, dim]
    _model,      \* embedding_worker._model  (None or a handle)
    _device,     \* embedding_worker._device (None or a str)
    nloads,      \* number of SentenceTransformer(...) constructions so far
    pc,          \* "idle" | "loop" | "wrap" | "exited": position of the process
    call,        \* arguments of the running / last generate_embeddings call
    batch_size,  \* embed_with_oom_recovery's local batch_size
    attempts,    \* the embed_chunks calls made by the running call, in order
    last_exc,    \* what the most recent embed_chunks call raised (None: returned)
    ewr,         \* how embed_with_oom_recovery ended (None while running)
    ret          \* outcome of the last completed top-level call

vars == <<hw, fs, _model, _device, nloads, pc, call, batch_size, attempts, last_exc,
          ewr, ret>>

-----------------------------------------------------------------------------
(* Bounds of the model *)

MaxBatch == 4     \* initial batch sizes are drawn from 0 .. MaxBatch
MaxChunks == 1    \* inputs have 0 .. MaxChunks texts
MaxLoads == 2     \* at most MaxLoads model constructions per behaviour

(* Program constants *)

EMBEDDING_DIM == 768
MIN_BATCH_SIZE == 1
MODEL_NAME == "nomic-embed-text-v1.5"
MODEL_VERSION == "1.5.0"
PREFIX_DOCUMENT == "search_document: "
PREFIX_QUERY == "search_query: "
DEFAULT_DEVICE == "auto"
MODEL_PATH == "models/nomic-embed-text-v1.5"
REQUIRED == <<"config.json", "model.safetensors", "tokenizer.json">>

-----------------------------------------------------------------------------
(* Python helpers *)

None == <<>>
Some(x) == <<x>>
Get(o) == o[1]

Range(s) == {s[i] : i \in 1..Len(s)}

\* str.startswith
startswith(s, p) == Len(s) >= Len(p) /\ SubSeq(s, 1, Len(p)) = p

\* the `in` operator on two str
contains(s, sub) ==
    \E i \in 1..(Len(s) - Len(sub) + 1) : SubSeq(s, i, i + Len(sub) - 1) = sub

UPPER == "ABCDEFGHIJKLMNOPQRSTUVWXYZ"
LOWER == "abcdefghijklmnopqrstuvwxyz"

\* the lower-case letter of each upper-case letter
ToLower ==
    [c \in {SubSeq(UPPER, i, i) : i \in 1..Len(UPPER)} |->
        LET i == CHOOSE j \in 1..Len(UPPER) : SubSeq(UPPER, j, j) = c
        IN  SubSeq(LOWER, i, i)]

LowerChar(c) == IF c \in DOMAIN ToLower THEN ToLower[c] ELSE c

\* str.lower
RECURSIVE lower(_)
lower(s) ==
    IF s = "" THEN ""
    ELSE LowerChar(SubSeq(s, 1, 1)) \o lower(SubSeq(s, 2, Len(s)))

\* repr of a list of str, as an f-string prints it: ['a', 'b']
RECURSIVE JoinQuoted(_)
JoinQuoted(xs) ==
    IF Len(xs) = 0 THEN ""
    ELSE IF Len(xs) = 1 THEN "'" \o xs[1] \o "'"
    ELSE "'" \o xs[1] \o "', " \o JoinQuoted(Tail(xs))

ListRepr(xs) == "[" \o JoinQuoted(xs) \o "]"

-----------------------------------------------------------------------------
(* Exceptions *)

Exc(type, msg) == [type |-> type, msg |-> msg, model_path |-> None]

EmbeddingModelError(msg) ==
    [type |-> "EmbeddingModelError", msg |-> msg, model_path |-> Some(MODEL_PATH)]

GPUOutOfMemoryError(msg) == Exc("GPUOutOfMemoryError", msg)

\* torch.cuda.OutOfMemoryError derives from RuntimeError
IsRuntimeError(e) == e.type \in {"RuntimeError", "OutOfMemoryError"}

-----------------------------------------------------------------------------
(* Device resolution *)

MpsStates == {"absent", "unavailable", "available"}

cuda_is_available(h) == h.cuda

\* hasattr(torch.backends, "mps") and torch.backends.mps.is_available()
mps_is_available(h) == h.mps # "absent" /\ h.mps = "available"

\* Mutant: "auto" probes MPS before CUDA
resolve_device_mps_first(requested, h) ==
    IF requested = "auto"
    THEN IF mps_is_available(h) THEN "mps"
         ELSE IF cuda_is_available(h) THEN "cuda:0"
         ELSE "cpu"
    ELSE IF startswith(requested, "cuda")
    THEN IF cuda_is_available(h) THEN requested
         ELSE IF mps_is_available(h) THEN "mps" ELSE "cpu"
    ELSE IF requested = "mps"
    THEN IF mps_is_available(h) THEN "mps"
         ELSE IF cuda_is_available(h) THEN "cuda:0" ELSE "cpu"
    ELSE requested

\* Mutant: an unavailable accelerator request falls straight to "cpu"
resolve_device_fallback_cpu(requested, h) ==
    IF requested = "auto"
    THEN IF cuda_is_available(h) THEN "cuda:0"
         ELSE IF mps_is_available(h) THEN "mps"
         ELSE "cpu"
    ELSE IF startswith(requested, "cuda")
    THEN IF cuda_is_available(h) THEN requested ELSE "cpu"
    ELSE IF requested = "mps"
    THEN IF mps_is_available(h) THEN "mps" ELSE "cpu"
    ELSE requested

\* Mutant: an unrecognized request is resolved like "auto"
resolve_device_unknown_auto(requested, h) ==
    IF requested \in {"auto", "mps"} \/ startswith(requested, "cuda")
    THEN IF startswith(requested, "cuda") /\ cuda_is_available(h) THEN requested
         ELSE IF requested = "mps" /\ mps_is_available(h) THEN "mps"
         ELSE IF cuda_is_available(h) THEN "cuda:0"
         ELSE IF mps_is_available(h) THEN "mps"
         ELSE "cpu"
    ELSE IF requested = "cpu" THEN "cpu"
    ELSE IF cuda_is_available(h) THEN "cuda:0"
    ELSE IF mps_is_available(h) THEN "mps"
    ELSE "cpu"

RECURSIVE resolve_device(_, _)
resolve_device(requested, h) ==
    IF requested = "auto"
    THEN IF cuda_is_available(h) THEN "cuda:0"
         ELSE IF mps_is_available(h) THEN "mps"
         ELSE "cpu"
    ELSE IF startswith(requested, "cuda")
    THEN IF cuda_is_available(h) THEN requested
         ELSE resolve_device("auto", h)
    ELSE IF requested = "mps"
    THEN IF mps_is_available(h) THEN "mps"
         ELSE resolve_device("auto", h)
    ELSE requested

-----------------------------------------------------------------------------
(* Inputs *)

Requests == {"auto", "cuda:0", "cuda:1", "mps", "cpu", "xpu:0"}

HwStates == [cuda : BOOLEAN, mps : MpsStates]

\* The frame of generate_embeddings when no call is running
NoCall ==
    [chunks |-> <<>>, batch_size |-> MIN_BATCH_SIZE, device |-> DEFAULT_DEVICE,
     entry |-> [model |-> None, device |-> None, nloads |-> 0], cli |-> None,
     stdin |-> None, cuda_ops |-> <<>>]

-----------------------------------------------------------------------------
(* Initial state: a fresh process; hardware and disk are whatever they are *)

FsStates ==
    [dir : BOOLEAN, files : SUBSET Range(REQUIRED), dim : {EMBEDDING_DIM, 384}]

Init ==
    /\ hw \in HwStates
    /\ fs \in {f \in FsStates :
                 /\ (~f.dir => f.files = {})
                 /\ (f.files # Range(REQUIRED) => f.dim = EMBEDDING_DIM)}
    /\ _model = None
    /\ _device = None
    /\ nloads = 0
    /\ pc = "idle"
    /\ call = NoCall
    /\ batch_size = MIN_BATCH_SIZE
    /\ attempts = <<>>
    /\ last_exc = None
    /\ ewr = None
    /\ ret = [op |-> "none"]

-----------------------------------------------------------------------------
(* The model cache: load_model *)

\* What SentenceTransformer(...) can do: construct (None) or raise.
CtorOutcomes ==
    { None,
      Some(Exc("RuntimeError", "CUDA out of memory.")),
      Some(Exc("GPUNotAvailableError", "CUDA GPU not available.")) }

\* Mutant: the cached handle is returned whatever device it is bound to
load_model_ignores_device(device, h, f, m, d, n, ctor) ==
    LET resolved == resolve_device(device, h)
        new == [id |-> n + 1, device |-> resolved, dim |-> f.dim]
    IN  IF m # None
        THEN [model |-> m, device |-> d, nloads |-> n, ret |-> m,
              exc |-> None, constructed |-> FALSE]
        ELSE IF ~f.dir \/ f.files # Range(REQUIRED) \/ ctor # None
        THEN [model |-> m, device |-> d, nloads |-> n, ret |-> None,
              exc |-> Some(EmbeddingModelError("Failed to load model")),
              constructed |-> FALSE]
        ELSE [model |-> Some(new), device |-> Some(resolved), nloads |-> n + 1,
              ret |-> IF new.dim = EMBEDDING_DIM THEN Some(new) ELSE None,
              exc |-> IF new.dim = EMBEDDING_DIM THEN None
                      ELSE Some(EmbeddingModelError("Wrong embedding dimension")),
              constructed |-> TRUE]

\* Mutant: a failed precondition check drops the cached handle
load_model_clears_on_failure(device, h, f, m, d, n, ctor) ==
    LET resolved == resolve_device(device, h)
        missing == SelectSeq(REQUIRED, LAMBDA x : x \notin f.files)
        raise(e) == [model |-> None, device |-> None, nloads |-> n, ret |-> None,
                     exc |-> Some(e), constructed |-> FALSE]
        new == [id |-> n + 1, device |-> resolved, dim |-> f.dim]
    IN  IF m # None /\ d = Some(resolved)
        THEN [model |-> m, device |-> d, nloads |-> n, ret |-> m,
              exc |-> None, constructed |-> FALSE]
        ELSE IF ~f.dir
        THEN raise(EmbeddingModelError("Model not found at " \o MODEL_PATH))
        ELSE IF missing # <<>>
        THEN raise(EmbeddingModelError("Missing model files: " \o ListRepr(missing)))
        ELSE IF ctor # None
        THEN raise(EmbeddingModelError("Failed to load model: " \o Get(ctor).msg))
        ELSE [model |-> Some(new), device |-> Some(resolved), nloads |-> n + 1,
              ret |-> IF new.dim = EMBEDDING_DIM THEN Some(new) ELSE None,
              exc |-> IF new.dim = EMBEDDING_DIM THEN None
                      ELSE Some(EmbeddingModelError("Wrong embedding dimension")),
              constructed |-> TRUE]

\* load_model on cache (m, d) with n constructions so far.  The result carries
\* the cache and the construction count after the call, the returned handle or
\* the raised exception, and whether SentenceTransformer(...) completed.
load_model(device, h, f, m, d, n, ctor) ==
    LET resolved == resolve_device(device, h)
        missing == SelectSeq(REQUIRED, LAMBDA x : x \notin f.files)
        raise(e) == [model |-> m, device |-> d, nloads |-> n, ret |-> None,
                     exc |-> Some(e), constructed |-> FALSE]
        new == [id |-> n + 1, device |-> resolved, dim |-> f.dim]
    IN  IF m # None /\ d = Some(resolved)
        THEN [model |-> m, device |-> d, nloads |-> n, ret |-> m,
              exc |-> None, constructed |-> FALSE]
        ELSE IF ~f.dir
        THEN raise(EmbeddingModelError(
                 "Model not found at " \o MODEL_PATH \o ". Download with: "
                 \o "huggingface-cli download nomic-ai/nomic-embed-text-v1.5 "
                 \o "--local-dir models/nomic-embed-text-v1.5"))
        ELSE IF missing # <<>>
        THEN raise(EmbeddingModelError("Missing model files: " \o ListRepr(missing)))
        ELSE IF ctor # None
        THEN IF Get(ctor).type \in {"GPUNotAvailableError", "EmbeddingModelError"}
             THEN raise(Get(ctor))
             ELSE raise(EmbeddingModelError("Failed to load model: " \o Get(ctor).msg))
        ELSE IF new.dim # EMBEDDING_DIM
        THEN [model |-> Some(new), device |-> Some(resolved), nloads |-> n + 1,
              ret |-> None,
              exc |-> Some(EmbeddingModelError(
                          "Wrong embedding dimension: " \o ToString(new.dim)
                          \o ", expected " \o ToString(EMBEDDING_DIM))),
              constructed |-> TRUE]
        ELSE [model |-> Some(new), device |-> Some(resolved), nloads |-> n + 1,
              ret |-> Some(new), exc |-> None, constructed |-> TRUE]

-----------------------------------------------------------------------------
(* Embedding *)

\* What model.encode can do: return (None) or raise.
EncodeOutcomes ==
    { None,
      Some(Exc("RuntimeError", "CUDA error: Out Of Memory")),
      Some(Exc("RuntimeError", "CUDA error: device-side assert triggered")),
      Some(Exc("OutOfMemoryError", "CUDA out of memory. Tried to allocate 2.00 GiB")),
      Some(Exc("OutOfMemoryError", "Allocation on device")),
      Some(Exc("MemoryError", "")),
      Some(Exc("ValueError", "Input is not valid")) }

\* Mutant: no early return for an empty input
embed_chunks_no_empty_guard(chunks, bs, device, h, f, m, d, n, ctor, enc) ==
    LET l == load_model(device, h, f, m, d, n, ctor)
        prefixed == [i \in 1..Len(chunks) |-> PREFIX_DOCUMENT \o chunks[i]]
        sent == Some([texts |-> prefixed, batch_size |-> bs,
                      device |-> resolve_device(device, h), model |-> l.ret])
    IN  IF l.exc # None
        THEN [model |-> l.model, device |-> l.device, nloads |-> l.nloads,
              ret |-> None, exc |-> l.exc, load_called |-> TRUE, encoded |-> None]
        ELSE IF enc # None
        THEN [model |-> l.model, device |-> l.device, nloads |-> l.nloads,
              ret |-> None, exc |-> enc, load_called |-> TRUE, encoded |-> sent]
        ELSE [model |-> l.model, device |-> l.device, nloads |-> l.nloads,
              ret |-> Some([i \in 1..Len(prefixed) |->
                              [of |-> prefixed[i], dim |-> Get(l.ret).dim]]),
              exc |-> None, load_called |-> TRUE, encoded |-> sent]

\* Mutant: a smaller batch size shrinks the input handed to the model
embed_chunks_shrinks_input(chunks, bs, device, h, f, m, d, n, ctor, enc) ==
    LET l == load_model(device, h, f, m, d, n, ctor)
        kept == SubSeq(chunks, 1, bs \div 2)
        prefixed == [i \in 1..Len(kept) |-> PREFIX_DOCUMENT \o kept[i]]
        sent == Some([texts |-> prefixed, batch_size |-> bs,
                      device |-> resolve_device(device, h), model |-> l.ret])
    IN  IF chunks = <<>>
        THEN [model |-> m, device |-> d, nloads |-> n, ret |-> Some(<<>>),
              exc |-> None, load_called |-> FALSE, encoded |-> None]
        ELSE IF l.exc # None
        THEN [model |-> l.model, device |-> l.device, nloads |-> l.nloads,
              ret |-> None, exc |-> l.exc, load_called |-> TRUE, encoded |-> None]
        ELSE IF enc # None
        THEN [model |-> l.model, device |-> l.device, nloads |-> l.nloads,
              ret |-> None, exc |-> enc, load_called |-> TRUE, encoded |-> sent]
        ELSE [model |-> l.model, device |-> l.device, nloads |-> l.nloads,
              ret |-> Some([i \in 1..Len(prefixed) |->
                              [of |-> prefixed[i], dim |-> Get(l.ret).dim]]),
              exc |-> None, load_called |-> TRUE, encoded |-> sent]

\* embed_chunks: the result carries the cache after the call, the returned
\* vectors or the raised exception, whether load_model was called, and what
\* was handed to model.encode (None when encode was not reached).
embed_chunks(chunks, bs, device, h, f, m, d, n, ctor, enc) ==
    IF chunks = <<>>
    THEN [model |-> m, device |-> d, nloads |-> n, ret |-> Some(<<>>), exc |-> None,
          load_called |-> FALSE, encoded |-> None]
    ELSE LET l == load_model(device, h, f, m, d, n, ctor)
             resolved == resolve_device(device, h)
             prefixed == [i \in 1..Len(chunks) |-> PREFIX_DOCUMENT \o chunks[i]]
             sent == Some([texts |-> prefixed, batch_size |-> bs,
                           device |-> resolved, model |-> l.ret])
         IN  IF l.exc # None
             THEN [model |-> l.model, device |-> l.device, nloads |-> l.nloads,
                   ret |-> None, exc |-> l.exc, load_called |-> TRUE, encoded |-> None]
             ELSE IF enc # None
             THEN [model |-> l.model, device |-> l.device, nloads |-> l.nloads,
                   ret |-> None, exc |-> enc, load_called |-> TRUE, encoded |-> sent]
             ELSE [model |-> l.model, device |-> l.device, nloads |-> l.nloads,
                   ret |-> Some([i \in 1..Len(prefixed) |->
                                   [of |-> prefixed[i], dim |-> Get(l.ret).dim]]),
                   exc |-> None, load_called |-> TRUE, encoded |-> sent]

\* Mutant: every exception of an attempt backs off
oom_handler_catches_all(e) == "backoff"

\* Mutant: every caught exception backs off, whatever its message
oom_handler_any_message(e) ==
    IF ~(e.type \in {"OutOfMemoryError", "MemoryError"} \/ IsRuntimeError(e))
    THEN "propagate"
    ELSE "backoff"

\* The except clause of embed_with_oom_recovery's loop body:
\* "propagate" (not caught), "reraise" (caught, raised again) or "backoff".
oom_handler(e) ==
    IF ~(e.type \in {"OutOfMemoryError", "MemoryError"} \/ IsRuntimeError(e))
    THEN "propagate"
    ELSE IF IsRuntimeError(e) /\ ~contains(lower(e.msg), "out of memory")
    THEN "reraise"
    ELSE "backoff"

\* Mutant: the loop stops above the minimum batch size
loop_continues_strict(bs) == bs > MIN_BATCH_SIZE

\* while batch_size >= MIN_BATCH_SIZE
loop_continues(bs) == bs >= MIN_BATCH_SIZE

\* Mutant: the halved batch size is rounded up
halve_rounds_up(bs) == (bs + 1) \div 2

\* Mutant: the batch size shrinks by one
halve_decrement(bs) == bs - 1

\* batch_size //= 2
halve(bs) == bs \div 2

oom_message(c) ==
    "OOM with " \o ToString(Len(c.chunks)) \o " chunks on " \o c.device \o ". "
    \o "Tried batch sizes " \o ToString(c.batch_size) \o " down to "
    \o ToString(MIN_BATCH_SIZE) \o "."

\* ms_per_chunk = elapsed_ms / len(chunks) if chunks else 0, rounded to 4
\* places; the value is in units of 1e-4 ms.  [exc, value]: a division by zero
\* raises ZeroDivisionError.
ms_per_chunk(el, chunks) ==
    IF chunks # <<>>
    THEN IF Len(chunks) = 0
         THEN [exc |-> Some(Exc("ZeroDivisionError", "float division by zero")), value |-> 0]
         ELSE [exc |-> None, value |-> (2 * el * 10000 + Len(chunks)) \div (2 * Len(chunks))]
    ELSE [exc |-> None, value |-> 0]

\* Mutant: the handler catches the worker's own error classes only
IsException_own_errors(e) ==
    e.type \in {"GPUOutOfMemoryError", "GPUNotAvailableError", "EmbeddingModelError"}

\* except Exception: what the handler of generate_embeddings catches
\* (every exception class but the BaseException-only ones)
IsException(e) == e.type \notin {"KeyboardInterrupt", "SystemExit", "GeneratorExit"}

\* Mutant: the requested string decides whether the device is a CUDA device
is_cuda_requested(device, h) == startswith(device, "cuda")

\* is_cuda: the resolved device starts with "cuda"
is_cuda(device, h) == startswith(resolve_device(device, h), "cuda")

\* torch.cuda.max_memory_allocated() is read on the success path of a call
\* whose resolved device is a CUDA device, and nowhere else
reads_peak(c, h, o) ==
    o.kind = "return" /\ is_cuda(c.device, h)

\* How generate_embeddings ends for call c once embed_with_oom_recovery ended
\* as o, the clock reading el ms and the allocator's peak being peak GiB:
\* [raised, exc, result], result being the EmbeddingResult returned.
generate_embeddings_outcome(c, h, o, el, peak) ==
    LET resolved_device == resolve_device(c.device, h)
        failure(e) ==
            [success |-> FALSE, embeddings |-> <<>>, count |-> 0, elapsed_ms |-> el,
             ms_per_chunk |-> 0, device |-> resolved_device,
             batch_size |-> c.batch_size, model |-> MODEL_NAME,
             model_version |-> MODEL_VERSION, vram_used_gb |-> 0,
             error |-> Some(e.msg)]
        handle(e) ==
            IF IsException(e)
            THEN [raised |-> FALSE, exc |-> None, result |-> Some(failure(e))]
            ELSE [raised |-> TRUE, exc |-> Some(e), result |-> None]
        mpc == ms_per_chunk(el, c.chunks)
    IN  IF o.kind = "raise" THEN handle(o.exc)
        ELSE IF mpc.exc # None THEN handle(Get(mpc.exc))
        ELSE [raised |-> FALSE, exc |-> None,
              result |-> Some(
                  [success |-> TRUE, embeddings |-> o.embeddings,
                   count |-> Len(c.chunks), elapsed_ms |-> el,
                   ms_per_chunk |-> mpc.value, device |-> resolved_device,
                   batch_size |-> o.batch_size, model |-> MODEL_NAME,
                   model_version |-> MODEL_VERSION,
                   vram_used_gb |-> IF is_cuda(c.device, h) THEN peak ELSE 0,
                   error |-> None])]

-----------------------------------------------------------------------------
(* The query path *)

\* Mutant: the query is sent with the document prefix
embed_query_document_prefix(query, device, h, f, m, d, n, ctor, enc) ==
    LET l == load_model(device, h, f, m, d, n, ctor)
        resolved == resolve_device(device, h)
        prefixed == PREFIX_DOCUMENT \o query
        sent == [texts |-> <<prefixed>>, device |-> resolved, model |-> l.ret]
    IN  IF l.exc # None
        THEN [model |-> l.model, device |-> l.device, nloads |-> l.nloads,
              ret |-> <<>>, exc |-> l.exc, encoded |-> <<>>]
        ELSE IF enc # None
        THEN [model |-> l.model, device |-> l.device, nloads |-> l.nloads,
              ret |-> <<>>, exc |-> enc, encoded |-> <<sent>>]
        ELSE [model |-> l.model, device |-> l.device, nloads |-> l.nloads,
              ret |-> <<[of |-> prefixed, dim |-> Get(l.ret).dim]>>,
              exc |-> None, encoded |-> <<sent>>]

\* embed_query: the result carries the cache after the call, the returned
\* vector (ret = <<v>>; <<>> when it raised) or the raised exception, and the
\* model.encode calls made, in order.
embed_query(query, device, h, f, m, d, n, ctor, enc) ==
    LET l == load_model(device, h, f, m, d, n, ctor)
        resolved == resolve_device(device, h)
        prefixed == PREFIX_QUERY \o query
        sent == [texts |-> <<prefixed>>, device |-> resolved, model |-> l.ret]
    IN  IF l.exc # None
        THEN [model |-> l.model, device |-> l.device, nloads |-> l.nloads,
              ret |-> <<>>, exc |-> l.exc, encoded |-> <<>>]
        ELSE IF enc # None
        THEN [model |-> l.model, device |-> l.device, nloads |-> l.nloads,
              ret |-> <<>>, exc |-> enc, encoded |-> <<sent>>]
        ELSE [model |-> l.model, device |-> l.device, nloads |-> l.nloads,
              ret |-> <<[of |-> prefixed, dim |-> Get(l.ret).dim]>>,
              exc |-> None, encoded |-> <<sent>>]

\* Mutant: an out-of-memory condition is raised to the caller
query_result_raises_oom(q, resolved_device, el) ==
    IF q.exc = None
    THEN [cache |-> [model |-> q.model, device |-> q.device, nloads |-> q.nloads],
          encoded |-> q.encoded, cause |-> None, raised |-> FALSE, exc |-> None,
          result |-> Some([success |-> TRUE, embedding |-> q.ret,
                           elapsed_ms |-> el, device |-> resolved_device,
                           model |-> MODEL_NAME, error |-> None])]
    ELSE IF Get(q.exc).type \notin {"OutOfMemoryError", "MemoryError"}
    THEN [cache |-> [model |-> q.model, device |-> q.device, nloads |-> q.nloads],
          encoded |-> q.encoded, cause |-> q.exc, raised |-> FALSE, exc |-> None,
          result |-> Some([success |-> FALSE, embedding |-> <<>>,
                           elapsed_ms |-> el, device |-> resolved_device,
                           model |-> MODEL_NAME, error |-> Some(Get(q.exc).msg)])]
    ELSE [cache |-> [model |-> q.model, device |-> q.device, nloads |-> q.nloads],
          encoded |-> q.encoded, cause |-> q.exc, raised |-> TRUE, exc |-> q.exc,
          result |-> None]

\* The try statement of generate_query_embedding, embed_query having ended as
\* q and the clock reading being el: the cache after the call, the encode
\* calls made, what embed_query raised (cause), and the QueryEmbeddingResult
\* returned or the exception raised.
query_result(q, resolved_device, el) ==
    IF q.exc = None
    THEN [cache |-> [model |-> q.model, device |-> q.device, nloads |-> q.nloads],
          encoded |-> q.encoded, cause |-> None, raised |-> FALSE, exc |-> None,
          result |-> Some([success |-> TRUE, embedding |-> q.ret,
                           elapsed_ms |-> el, device |-> resolved_device,
                           model |-> MODEL_NAME, error |-> None])]
    ELSE IF IsException(Get(q.exc))
    THEN [cache |-> [model |-> q.model, device |-> q.device, nloads |-> q.nloads],
          encoded |-> q.encoded, cause |-> q.exc, raised |-> FALSE, exc |-> None,
          result |-> Some([success |-> FALSE, embedding |-> <<>>,
                           elapsed_ms |-> el, device |-> resolved_device,
                           model |-> MODEL_NAME, error |-> Some(Get(q.exc).msg)])]
    ELSE [cache |-> [model |-> q.model, device |-> q.device, nloads |-> q.nloads],
          encoded |-> q.encoded, cause |-> q.exc, raised |-> TRUE, exc |-> q.exc,
          result |-> None]

\* Mutant: the query result reports the requested device string
generate_query_embedding_requested_device(query, device, h, f, m, d, n, ctor, enc, el) ==
    query_result(embed_query(query, device, h, f, m, d, n, ctor, enc), device, el)

generate_query_embedding(query, device, h, f, m, d, n, ctor, enc, el) ==
    query_result(embed_query(query, device, h, f, m, d, n, ctor, enc),
                 resolve_device(device, h), el)

Queries == {"what is provenance"}

-----------------------------------------------------------------------------
(* The command line: main().  args is what argparse produced: [mode, json,  *)
(* query, chunks, batch_size, device]; an output stream is the sequence of  *)
(* print calls made on it: a JSON document or a line of text.               *)

JsonDoc(d) == [kind |-> "json", doc |-> d]

Line(t) == [kind |-> "text", text |-> t]

\* dict(d) with d[k] = v
SetItem(d, k, v) == [x \in DOMAIN d \cup {k} |-> IF x = k THEN v ELSE d[x]]

\* f"{x:.0f}" for x = 1000 / ms_per_chunk, ms_per_chunk = v * 1e-4 > 0
Throughput(v) == ToString((2 * 10000000 + v) \div (2 * v))

\* lines 520-542: the output for a result record; [stdout, stderr, exit],
\* exit = 0 when main returns and 1 when it calls sys.exit(1)
main_report(args, is_batch, r) ==
    IF args.json
    THEN [stdout |-> <<JsonDoc(SetItem(r, "device_used", r.device))>>,
          stderr |-> <<>>,
          exit |-> IF ~r.success THEN 1 ELSE 0]
    ELSE IF is_batch
    THEN IF r.success
         THEN [stdout |-> << Line("Embedded " \o ToString(r.count) \o " chunks in "
                                  \o ToString(r.elapsed_ms) \o ".0ms"),
                             Line("Throughput: "
                                  \o (IF r.ms_per_chunk > 0
                                      THEN Throughput(r.ms_per_chunk) ELSE "0")
                                  \o " chunks/sec"),
                             Line("VRAM used: " \o ToString(r.vram_used_gb)
                                  \o ".000 GB") >>,
               stderr |-> <<>>, exit |-> 0]
         ELSE [stdout |-> <<>>, stderr |-> <<Line("ERROR: " \o Get(r.error))>>,
               exit |-> 1]
    ELSE IF r.success
         THEN [stdout |-> <<Line("Query embedded in " \o ToString(r.elapsed_ms)
                                 \o ".0ms")>>,
               stderr |-> <<>>, exit |-> 0]
         ELSE [stdout |-> <<>>, stderr |-> <<Line("ERROR: " \o Get(r.error))>>,
               exit |-> 1]

\* Mutant: an exception caught by main prints no envelope
main_except_no_envelope(args, e) ==
    [stdout |-> <<>>, stderr |-> <<Line("ERROR: " \o e.msg)>>, exit |-> 1]

\* Mutant: main returns normally after printing the envelope
main_except_exit_zero(args, e) ==
    IF args.json
    THEN [stdout |-> <<JsonDoc([success |-> FALSE, error |-> e.msg,
                               error_type |-> e.type])>>,
          stderr |-> <<>>, exit |-> 0]
    ELSE [stdout |-> <<>>, stderr |-> <<Line("ERROR: " \o e.msg)>>, exit |-> 0]

\* lines 544-554: the output when an Exception reaches main
main_except(args, e) ==
    IF args.json
    THEN [stdout |-> <<JsonDoc([success |-> FALSE, error |-> e.msg,
                               error_type |-> e.type])>>,
          stderr |-> <<>>, exit |-> 1]
    ELSE [stdout |-> <<>>, stderr |-> <<Line("ERROR: " \o e.msg)>>, exit |-> 1]

\* What json.load(sys.stdin) finds: text that is not JSON, a JSON object, or
\* a JSON array; value holds an array's elements as an f-string formats them
\* (the number 7 as "7"), strings says whether all of them are strings
StdinDocs ==
    { [kind |-> "list", value |-> <<>>, strings |-> TRUE],
      [kind |-> "list", value |-> <<"chunk 1">>, strings |-> TRUE],
      [kind |-> "list", value |-> <<"7">>, strings |-> FALSE],
      [kind |-> "object", value |-> <<>>, strings |-> TRUE],
      [kind |-> "invalid", value |-> <<>>, strings |-> TRUE] }

\* lines 511-516: the chunks of chunk mode, or the exception raised; absent
\* says that chunks is None (args.chunks when --chunks was not given)
main_chunks(args, stdin) ==
    IF args.mode = "stdin"
    THEN IF stdin.kind = "invalid"
         THEN [exc |-> Some(Exc("JSONDecodeError",
                                "Expecting value: line 1 column 1 (char 0)")),
               chunks |-> <<>>, absent |-> FALSE]
         ELSE IF stdin.kind # "list"
         THEN [exc |-> Some(Exc("ValueError", "stdin must be a JSON array of strings")),
               chunks |-> <<>>, absent |-> FALSE]
         ELSE [exc |-> None, chunks |-> stdin.value, absent |-> FALSE]
    ELSE [exc |-> None, chunks |-> args.chunks, absent |-> args.mode # "chunks"]

TypeError(msg) == Exc("TypeError", msg)

\* generate_embeddings(None, batch_size, device): embed_chunks returns the
\* empty array for None without loading the model, so the loop returns at its
\* first iteration and len(chunks) raises at line 403; with batch_size < 1 the
\* loop is skipped and len(chunks) raises at line 355.  Either way the
\* handler at line 413 builds the failure record.
generate_embeddings_absent(bs, device, h, el) ==
    [success |-> FALSE, embeddings |-> <<>>, count |-> 0, elapsed_ms |-> el,
     ms_per_chunk |-> 0, device |-> resolve_device(device, h),
     batch_size |-> bs, model |-> MODEL_NAME,
     model_version |-> MODEL_VERSION, vram_used_gb |-> 0,
     error |-> Some(TypeError("object of type 'NoneType' has no len()").msg)]

\* Command lines explored: --query Q | --chunks C | --stdin (mode names the
\* flag given), with or without --json, --batch-size 0 or 2 (2 with a
\* non-empty query, which ignores it), --device left at its default or "cpu".
\* Q may be the empty string; query is "" and chunks is <<>> also when the
\* flag is not given and argparse leaves None, which is as falsy as "".
CliArgs ==
    { a \in [mode : {"query", "chunks", "stdin"}, json : BOOLEAN,
             query : Queries \cup {""}, chunks : {<<>>, <<"chunk 1">>},
             batch_size : {0, 2}, device : {DEFAULT_DEVICE, "cpu"}] :
        /\ (a.query # "") => (a.mode = "query")
        /\ (a.query # "") => (a.batch_size = 2)
        /\ (a.mode = "chunks") <=> (a.chunks # <<>>) }

\* if args.query: the command lines taking the query branch, and the others
CliQueryArgs == {a \in CliArgs : a.query # ""}

CliChunkArgs == {a \in CliArgs : a.query = ""}

-----------------------------------------------------------------------------
(* gpu_utils.py: diagnostics.  torch says whether `import torch` succeeds; p   *)
(* is what the CUDA runtime reports for the current device, memory in units *)
(* of 0.01 GiB; a result carries the torch.cuda calls made, in order (ops). *)

GPUError(msg) == Exc("GPUError", msg)

GPUNotAvailableError(msg) == Exc("GPUNotAvailableError", msg)

ImportError(msg) == Exc("ImportError", msg)

GpuProps ==
    { [name |-> "NVIDIA GeForce RTX 5090", total |-> 3200, allocated |-> 150,
       reserved |-> 200] }

\* Mutant: the detector knows CUDA only
detect_best_device_cuda_only(torch, h) ==
    IF torch /\ cuda_is_available(h) THEN "cuda:0" ELSE "cpu"

detect_best_device(torch, h) ==
    IF ~torch THEN "cpu"
    ELSE IF cuda_is_available(h) THEN "cuda:0"
    ELSE IF mps_is_available(h) THEN "mps"
    ELSE "cpu"

\* Mutant: without CUDA the verification raises
verify_gpu_raises(torch, h, p) ==
    IF ~torch
    THEN [exc |-> Some(ImportError("PyTorch is not installed")), ret |-> None,
          ops |-> <<>>]
    ELSE IF ~cuda_is_available(h)
    THEN [exc |-> Some(GPUNotAvailableError("CUDA GPU not available.")),
          ret |-> None, ops |-> <<>>]
    ELSE [exc |-> None,
          ret |-> Some([available |-> TRUE, name |-> p.name, vram_gb |-> p.total,
                        vram_used_gb |-> p.allocated,
                        vram_free_gb |-> p.total - p.allocated]),
          ops |-> <<"current_device", "get_device_properties", "memory_allocated">>]

verify_gpu(torch, h, p) ==
    IF ~torch
    THEN [exc |-> Some(ImportError(
                     "PyTorch is not installed. Install with: pip install torch")),
          ret |-> None, ops |-> <<>>]
    ELSE IF ~cuda_is_available(h)
    THEN LET best == detect_best_device(torch, h)
         IN  [exc |-> None,
              ret |-> Some([available |-> FALSE,
                            name |-> "No CUDA GPU (best device: " \o best \o ")",
                            vram_gb |-> 0, vram_used_gb |-> 0, vram_free_gb |-> 0]),
              ops |-> <<>>]
    ELSE [exc |-> None,
          ret |-> Some([available |-> TRUE, name |-> p.name, vram_gb |-> p.total,
                        vram_used_gb |-> p.allocated,
                        vram_free_gb |-> p.total - p.allocated]),
          ops |-> <<"current_device", "get_device_properties", "memory_allocated">>]

\* Mutant: without CUDA the query answers with an all-zero record
get_vram_usage_default_record(torch, h, p) ==
    IF ~torch
    THEN [exc |-> Some(ImportError("PyTorch not installed")), ret |-> None,
          ops |-> <<>>]
    ELSE IF ~cuda_is_available(h)
    THEN [exc |-> None,
          ret |-> Some([allocated_gb |-> 0, reserved_gb |-> 0, free_gb |-> 0,
                        total_gb |-> 0]),
          ops |-> <<>>]
    ELSE [exc |-> None,
          ret |-> Some([allocated_gb |-> p.allocated, reserved_gb |-> p.reserved,
                        free_gb |-> p.total - p.reserved, total_gb |-> p.total]),
          ops |-> <<"current_device", "memory_allocated", "memory_reserved",
                    "get_device_properties">>]

get_vram_usage(torch, h, p) ==
    IF ~torch
    THEN [exc |-> Some(ImportError("PyTorch not installed")), ret |-> None,
          ops |-> <<>>]
    ELSE IF ~cuda_is_available(h)
    THEN [exc |-> Some(GPUNotAvailableError("CUDA not available for VRAM usage query")),
          ret |-> None, ops |-> <<>>]
    ELSE [exc |-> None,
          ret |-> Some([allocated_gb |-> p.allocated, reserved_gb |-> p.reserved,
                        free_gb |-> p.total - p.reserved, total_gb |-> p.total]),
          ops |-> <<"current_device", "memory_allocated", "memory_reserved",
                    "get_device_properties">>]

\* What torch.cuda.empty_cache() / synchronize() can do: return (None) or raise
SyncOutcomes ==
    { None, Some(Exc("RuntimeError", "CUDA error: unspecified launch failure")) }

\* clear_gpu_memory: the import and the availability test sit inside the try
\* block whose handlers re-raise GPUNotAvailableError and wrap every other
\* Exception into GPUError.
clear_gpu_memory(torch, h, sync) ==
    LET wrap(e) == GPUError("Failed to clear GPU memory: " \o e.msg)
    IN  IF ~torch
        THEN [exc |-> Some(wrap(ImportError("No module named 'torch'"))),
              ops |-> <<>>]
        ELSE IF ~cuda_is_available(h)
        THEN [exc |-> Some(GPUNotAvailableError(
                             "Cannot clear GPU memory: CUDA not available")),
              ops |-> <<>>]
        ELSE IF sync # None
        THEN [exc |-> Some(wrap(Get(sync))), ops |-> <<"empty_cache", "synchronize">>]
        ELSE [exc |-> None, ops |-> <<"empty_cache", "synchronize">>]

-----------------------------------------------------------------------------
(* Inputs of generate_embeddings *)

Text(i) == "chunk " \o ToString(i)

ChunkLists == {[i \in 1..n |-> Text(i)] : n \in 0..MaxChunks}

BatchSizes == 0..MaxBatch

\* time.perf_counter() differences, in ms
ClockReadings == {0, 3}

\* torch.cuda.max_memory_allocated(), in GiB
PeakReadings == {0, 2}

-----------------------------------------------------------------------------
(* Actions *)

\* The process is between two top-level calls, the last result dropped
Idle == pc = "idle" /\ ret.op = "none"

\* A call of resolve_device from the idle process
Resolve(requested) ==
    /\ Idle
    /\ ret' = [op |-> "resolve_device", requested |-> requested,
               value |-> resolve_device(requested, hw)]
    /\ UNCHANGED <<hw, fs, _model, _device, nloads, pc, call, batch_size, attempts,
                   last_exc, ewr>>

\* A call of load_model from the idle process
LoadModel(device, ctor) ==
    /\ Idle
    /\ LET l == load_model(device, hw, fs, _model, _device, nloads, ctor)
       IN  /\ l.nloads <= MaxLoads
           /\ _model' = l.model
           /\ _device' = l.device
           /\ nloads' = l.nloads
           /\ ret' = [op |-> "load_model", device |-> device, ctor |-> ctor,
                      before |-> [model |-> _model, device |-> _device,
                                  nloads |-> nloads],
                      ret |-> l.ret, exc |-> l.exc, constructed |-> l.constructed]
    /\ UNCHANGED <<hw, fs, pc, call, batch_size, attempts, last_exc, ewr>>

\* generate_embeddings up to its call of embed_with_oom_recovery, and that
\* function up to its loop
GenerateStart(chunks, bs, device) ==
    /\ Idle
    /\ call' = [chunks |-> chunks, batch_size |-> bs, device |-> device,
                entry |-> [model |-> _model, device |-> _device, nloads |-> nloads],
                cli |-> None, stdin |-> None,
                cuda_ops |-> IF is_cuda(device, hw)
                             THEN <<"reset_peak_memory_stats">> ELSE <<>>]
    /\ batch_size' = bs
    /\ attempts' = <<>>
    /\ last_exc' = None
    /\ ewr' = None
    /\ ret' = [op |-> "none"]
    /\ pc' = "loop"
    /\ UNCHANGED <<hw, fs, _model, _device, nloads>>

\* One iteration of the while loop: an embed_chunks call and its handling
Attempt(ctor, enc) ==
    /\ pc = "loop"
    /\ loop_continues(batch_size)
    /\ LET r == embed_chunks(call.chunks, batch_size, call.device, hw, fs,
                             _model, _device, nloads, ctor, enc)
           how == IF r.exc = None THEN "ok" ELSE oom_handler(Get(r.exc))
           empty_cache == IF is_cuda(call.device, hw)
                          THEN <<"empty_cache">> ELSE <<>>
           a == [batch_size |-> batch_size, load_called |-> r.load_called,
                 encoded |-> r.encoded, outcome |-> how,
                 cuda_ops |-> IF how = "backoff" THEN empty_cache \o empty_cache
                              ELSE empty_cache]
       IN  /\ r.nloads <= MaxLoads
           /\ _model' = r.model
           /\ _device' = r.device
           /\ nloads' = r.nloads
           /\ attempts' = Append(attempts, a)
           /\ last_exc' = r.exc
           /\ IF how = "ok"
              THEN /\ ewr' = Some([kind |-> "return", embeddings |-> Get(r.ret),
                                   batch_size |-> batch_size])
                   /\ pc' = "wrap"
                   /\ UNCHANGED batch_size
              ELSE IF how = "backoff"
              THEN /\ batch_size' = halve(batch_size)
                   /\ UNCHANGED <<ewr, pc>>
              ELSE /\ ewr' = Some([kind |-> "raise", exc |-> Get(r.exc)])
                   /\ pc' = "wrap"
                   /\ UNCHANGED batch_size
    /\ UNCHANGED <<hw, fs, call, ret>>

\* The loop condition fails: raise GPUOutOfMemoryError
Exhausted ==
    /\ pc = "loop"
    /\ ~loop_continues(batch_size)
    /\ ewr' = Some([kind |-> "raise", exc |-> GPUOutOfMemoryError(oom_message(call))])
    /\ pc' = "wrap"
    /\ UNCHANGED <<hw, fs, _model, _device, nloads, call, batch_size, attempts,
                   last_exc, ret>>

\* generate_embeddings after embed_with_oom_recovery returned or raised; el is
\* the clock reading, peak the allocator's peak when the code reads it
GenerateFinish(el, peak) ==
    /\ pc = "wrap"
    /\ call.cli = None
    /\ reads_peak(call, hw, Get(ewr)) \/ peak = 0
    /\ LET g == generate_embeddings_outcome(call, hw, Get(ewr), el, peak)
       IN  ret' = [op |-> "generate_embeddings", call |-> call,
                   attempts |-> attempts, ewr |-> Get(ewr),
                   after |-> [model |-> _model, device |-> _device,
                              nloads |-> nloads],
                   raised |-> g.raised, exc |-> g.exc, result |-> g.result,
                   peak_read |-> reads_peak(call, hw, Get(ewr))]
    /\ pc' = "idle"
    /\ call' = NoCall
    /\ batch_size' = MIN_BATCH_SIZE
    /\ attempts' = <<>>
    /\ last_exc' = None
    /\ ewr' = None
    /\ UNCHANGED <<hw, fs, _model, _device, nloads>>

\* A process is fresh when it has made no call yet; main runs in a process of
\* its own
Fresh == Idle /\ _model = None /\ _device = None /\ nloads = 0

\* main in query mode, from argument parsing to exit
MainQuery(args, ctor, enc, el) ==
    /\ Fresh
    /\ args.query # ""
    /\ LET g == generate_query_embedding(args.query, args.device, hw, fs, _model,
                                         _device, nloads, ctor, enc, el)
           out == IF g.raised THEN main_except(args, Get(g.exc))
                  ELSE main_report(args, FALSE, Get(g.result))
       IN  /\ _model' = g.cache.model
           /\ _device' = g.cache.device
           /\ nloads' = g.cache.nloads
           /\ ret' = [op |-> "main", args |-> args, result |-> g.result,
                      exc |-> g.exc, stdout |-> out.stdout, stderr |-> out.stderr,
                      exit |-> out.exit, path |-> "query", absent |-> FALSE]
    /\ pc' = "exited"
    /\ UNCHANGED <<hw, fs, call, batch_size, attempts, last_exc, ewr>>

\* main in chunk mode (the else branch of `if args.query`) up to the loop of
\* embed_with_oom_recovery, or to exit when reading stdin raised or when
\* chunks is None; el is the clock reading of a run that ends here
MainChunks(args, stdin, el) ==
    /\ Fresh
    /\ args.query = ""
    /\ args.mode = "stdin" \/ stdin = [kind |-> "list", value |-> <<>>, strings |-> TRUE]
    /\ LET c == main_chunks(args, stdin)
       IN  IF c.exc # None
           THEN LET out == main_except(args, Get(c.exc))
                IN  /\ ret' = [op |-> "main", args |-> args, result |-> None,
                               exc |-> c.exc, stdout |-> out.stdout,
                               stderr |-> out.stderr, exit |-> out.exit,
                               path |-> "none", absent |-> FALSE,
                               stdin |-> stdin, resolved |-> FALSE, loads |-> 0,
                               encode_calls |-> 0]
                    /\ pc' = "exited"
                    /\ UNCHANGED <<call, batch_size, attempts, last_exc, ewr>>
           ELSE IF c.absent
           THEN LET r == generate_embeddings_absent(args.batch_size, args.device,
                                                    hw, el)
                    out == main_report(args, TRUE, r)
                IN  /\ ret' = [op |-> "main", args |-> args, result |-> Some(r),
                               exc |-> None, stdout |-> out.stdout,
                               stderr |-> out.stderr, exit |-> out.exit,
                               path |-> "chunks", absent |-> TRUE,
                               stdin |-> stdin, resolved |-> TRUE, loads |-> 0,
                               encode_calls |-> 0]
                    /\ pc' = "exited"
                    /\ UNCHANGED <<call, batch_size, attempts, last_exc, ewr>>
           ELSE /\ call' = [chunks |-> c.chunks, batch_size |-> args.batch_size,
                            device |-> args.device,
                            entry |-> [model |-> _model, device |-> _device,
                                       nloads |-> nloads],
                            cli |-> Some(args), stdin |-> Some(stdin),
                            cuda_ops |-> IF is_cuda(args.device, hw)
                                         THEN <<"reset_peak_memory_stats">>
                                         ELSE <<>>]
                /\ batch_size' = args.batch_size
                /\ attempts' = <<>>
                /\ last_exc' = None
                /\ ewr' = None
                /\ ret' = [op |-> "none"]
                /\ pc' = "loop"
    /\ UNCHANGED <<hw, fs, _model, _device, nloads>>

\* main in chunk mode after embed_with_oom_recovery returned or raised: the
\* rest of generate_embeddings, the output and the exit
MainFinish(el, peak) ==
    /\ pc = "wrap"
    /\ call.cli # None
    /\ reads_peak(call, hw, Get(ewr)) \/ peak = 0
    /\ LET g == generate_embeddings_outcome(call, hw, Get(ewr), el, peak)
           args == Get(call.cli)
           out == IF g.raised THEN main_except(args, Get(g.exc))
                  ELSE main_report(args, TRUE, Get(g.result))
       IN  ret' = [op |-> "main", args |-> args, result |-> g.result,
                   exc |-> g.exc, stdout |-> out.stdout, stderr |-> out.stderr,
                   exit |-> out.exit, path |-> "chunks", absent |-> FALSE,
                   stdin |-> Get(call.stdin), resolved |-> TRUE,
                   loads |-> nloads - call.entry.nloads,
                   encode_calls |-> Cardinality({i \in 1..Len(attempts) :
                                                   attempts[i].encoded # None})]
    /\ pc' = "exited"
    /\ call' = NoCall
    /\ batch_size' = MIN_BATCH_SIZE
    /\ attempts' = <<>>
    /\ last_exc' = None
    /\ ewr' = None
    /\ UNCHANGED <<hw, fs, _model, _device, nloads>>

\* A call of generate_query_embedding from the idle process
QueryEmbedding(query, device, ctor, enc, el) ==
    /\ Idle
    /\ LET g == generate_query_embedding(query, device, hw, fs, _model, _device,
                                         nloads, ctor, enc, el)
       IN  /\ g.cache.nloads <= MaxLoads
           /\ _model' = g.cache.model
           /\ _device' = g.cache.device
           /\ nloads' = g.cache.nloads
           /\ ret' = [op |-> "generate_query_embedding", query |-> query,
                      device |-> device,
                      before |-> [model |-> _model, device |-> _device,
                                  nloads |-> nloads],
                      encoded |-> g.encoded, cause |-> g.cause,
                      raised |-> g.raised, exc |-> g.exc, result |-> g.result]
    /\ UNCHANGED <<hw, fs, pc, call, batch_size, attempts, last_exc, ewr>>

\* Calls of the gpu_utils diagnostics from the idle process; a process in
\* which torch cannot be imported has loaded no model
VerifyGpu(torch, p) ==
    /\ Idle
    /\ torch \/ _model = None
    /\ LET v == verify_gpu(torch, hw, p)
       IN  ret' = [op |-> "verify_gpu", torch |-> torch, exc |-> v.exc,
                   ret |-> v.ret, ops |-> v.ops]
    /\ UNCHANGED <<hw, fs, _model, _device, nloads, pc, call, batch_size, attempts,
                   last_exc, ewr>>

DetectBestDevice(torch) ==
    /\ Idle
    /\ torch \/ _model = None
    /\ ret' = [op |-> "detect_best_device", torch |-> torch,
               value |-> detect_best_device(torch, hw)]
    /\ UNCHANGED <<hw, fs, _model, _device, nloads, pc, call, batch_size, attempts,
                   last_exc, ewr>>

GetVramUsage(torch, p) ==
    /\ Idle
    /\ torch \/ _model = None
    /\ LET v == get_vram_usage(torch, hw, p)
       IN  ret' = [op |-> "get_vram_usage", torch |-> torch, exc |-> v.exc,
                   ret |-> v.ret, ops |-> v.ops]
    /\ UNCHANGED <<hw, fs, _model, _device, nloads, pc, call, batch_size, attempts,
                   last_exc, ewr>>

ClearGpuMemory(torch, sync) ==
    /\ Idle
    /\ torch \/ _model = None
    /\ LET v == clear_gpu_memory(torch, hw, sync)
       IN  ret' = [op |-> "clear_gpu_memory", torch |-> torch, exc |-> v.exc,
                   ops |-> v.ops]
    /\ UNCHANGED <<hw, fs, _model, _device, nloads, pc, call, batch_size, attempts,
                   last_exc, ewr>>

\* The required files removed from disk in the behaviours explored
Unlinkable == {"tokenizer.json"}

\* Between two calls a required file is removed from disk: load_model reads
\* the disk anew at every call that misses the cache
Unlink(x) ==
    /\ Idle
    /\ x \in fs.files
    /\ fs' = [dir |-> TRUE, files |-> fs.files \ {x}, dim |-> EMBEDDING_DIM]
    /\ UNCHANGED <<hw, _model, _device, nloads, pc, call, batch_size, attempts,
                   last_exc, ewr, ret>>

\* The caller drops the value the last call returned
Discard ==
    /\ pc = "idle"
    /\ ret.op # "none"
    /\ ret' = [op |-> "none"]
    /\ UNCHANGED <<hw, fs, _model, _device, nloads, pc, call, batch_size, attempts,
                   last_exc, ewr>>

Next ==
    \/ \E requested \in Requests : Resolve(requested)
    \/ \E device \in Requests, ctor \in CtorOutcomes : LoadModel(device, ctor)
    \/ \E chunks \in ChunkLists, bs \in BatchSizes, device \in Requests :
          GenerateStart(chunks, bs, device)
    \/ \E ctor \in CtorOutcomes, enc \in EncodeOutcomes : Attempt(ctor, enc)
    \/ Exhausted
    \/ \E el \in ClockReadings, peak \in PeakReadings : GenerateFinish(el, peak)
    \/ \E args \in CliQueryArgs, ctor \in CtorOutcomes, enc \in EncodeOutcomes,
          el \in ClockReadings : MainQuery(args, ctor, enc, el)
    \/ \E args \in CliChunkArgs, stdin \in StdinDocs, el \in ClockReadings :
          MainChunks(args, stdin, el)
    \/ \E el \in ClockReadings, peak \in PeakReadings : MainFinish(el, peak)
    \/ \E query \in Queries, device \in Requests, ctor \in CtorOutcomes,
          enc \in EncodeOutcomes, el \in ClockReadings :
          QueryEmbedding(query, device, ctor, enc, el)
    \/ \E torch \in BOOLEAN, p \in GpuProps : VerifyGpu(torch, p)
    \/ \E torch \in BOOLEAN : DetectBestDevice(torch)
    \/ \E torch \in BOOLEAN, p \in GpuProps : GetVramUsage(torch, p)
    \/ \E torch \in BOOLEAN, sync \in SyncOutcomes : ClearGpuMemory(torch, sync)
    \/ \E x \in Unlinkable : Unlink(x)
    \/ Discard

Spec == Init /\ [][Next]_vars

\* The largest number of CUDA devices of a machine
MaxDevices == 2

\* The names of the CUDA devices, by index
CudaDevices == <<"cuda:0", "cuda:1", "cuda:2", "cuda:3">>

\* Hardware with its number of CUDA devices: torch.cuda.is_available() is
\* true exactly when there is at least one
CountedHwStates ==
    {h \in [cuda : BOOLEAN, mps : MpsStates, device_count : 0..MaxDevices] :
        h.cuda <=> h.device_count > 0}

\* resolve_device on its own, on hardware with a device count
ResolveInit ==
    /\ hw \in CountedHwStates
    /\ fs \in {f \in FsStates :
                 /\ (~f.dir => f.files = {})
                 /\ (f.files # Range(REQUIRED) => f.dim = EMBEDDING_DIM)}
    /\ _model = None
    /\ _device = None
    /\ nloads = 0
    /\ pc = "idle"
    /\ call = NoCall
    /\ batch_size = MIN_BATCH_SIZE
    /\ attempts = <<>>
    /\ last_exc = None
    /\ ewr = None
    /\ ret = [op |-> "none"]

ResolveNext ==
    \/ \E requested \in Requests : Resolve(requested)
    \/ Discard

ResolveSpec == ResolveInit /\ [][ResolveNext]_vars

\* load_model called by concurrent threads of one process.  The function takes
\* no lock, so the threads interleave between its statements; here pc, call
\* and ret hold one value per thread: the thread's position in load_model,
\* its local variable device (as requested, then as resolved) and what the
\* call returned or raised.
Threads == {1, 2}

ThreadRequests == {"auto", "cpu", "cuda:0"}

ThreadInit ==
    /\ hw \in HwStates
    /\ fs \in {f \in FsStates :
                 /\ (~f.dir => f.files = {})
                 /\ (f.files # Range(REQUIRED) => f.dim = EMBEDDING_DIM)}
    /\ _model = None
    /\ _device = None
    /\ nloads = 0
    /\ pc = [t \in Threads |-> "idle"]
    /\ call = [t \in Threads |-> [requested |-> None, device |-> None]]
    /\ ret = [t \in Threads |-> None]
    /\ batch_size = MIN_BATCH_SIZE
    /\ attempts = <<>>
    /\ last_exc = None
    /\ ewr = None

\* what a thread's step leaves alone
ThreadFrame == UNCHANGED <<hw, fs, batch_size, attempts, last_exc, ewr>>

\* load_model returns value or raises exc in thread t
ThreadEnds(t, value, exc) ==
    /\ ret' = [ret EXCEPT ![t] = Some([value |-> value, exc |-> exc])]
    /\ pc' = [pc EXCEPT ![t] = "done"]

\* line 201: thread t calls load_model(requested) and resolves the device
T_Resolve(t, requested) ==
    /\ pc[t] = "idle"
    /\ call' = [call EXCEPT ![t] = [requested |-> Some(requested),
                                    device |-> Some(resolve_device(requested, hw))]]
    /\ pc' = [pc EXCEPT ![t] = "check"]
    /\ UNCHANGED <<_model, _device, nloads, ret>>
    /\ ThreadFrame

\* line 204: the cache test
T_Check(t) ==
    /\ pc[t] = "check"
    /\ pc' = [pc EXCEPT ![t] =
                 IF _model # None /\ _device = call[t].device THEN "hit" ELSE "files"]
    /\ UNCHANGED <<_model, _device, nloads, call, ret>>
    /\ ThreadFrame

\* line 205: return _model, the global as it is now
T_ReturnCached(t) ==
    /\ pc[t] = "hit"
    /\ ThreadEnds(t, _model, None)
    /\ UNCHANGED <<_model, _device, nloads, call>>
    /\ ThreadFrame

\* lines 209-221: the directory and the required files
T_CheckFiles(t) ==
    /\ pc[t] = "files"
    /\ LET missing == SelectSeq(REQUIRED, LAMBDA x : x \notin fs.files)
       IN  IF ~fs.dir
           THEN ThreadEnds(t, None, Some(EmbeddingModelError(
                    "Model not found at " \o MODEL_PATH \o ". Download with: "
                    \o "huggingface-cli download nomic-ai/nomic-embed-text-v1.5 "
                    \o "--local-dir models/nomic-embed-text-v1.5")))
           ELSE IF missing # <<>>
           THEN ThreadEnds(t, None, Some(EmbeddingModelError(
                    "Missing model files: " \o ListRepr(missing))))
           ELSE pc' = [pc EXCEPT ![t] = "construct"] /\ UNCHANGED ret
    /\ UNCHANGED <<_model, _device, nloads, call>>
    /\ ThreadFrame

\* line 225: _model = SentenceTransformer(..., device=device), or the
\* constructor raises and the handlers at 239-244 pass it on or wrap it
T_Construct(t, ctor) ==
    /\ pc[t] = "construct"
    /\ nloads < MaxLoads
    /\ IF ctor # None
       THEN /\ ThreadEnds(t, None,
                   IF Get(ctor).type \in {"GPUNotAvailableError", "EmbeddingModelError"}
                   THEN ctor
                   ELSE Some(EmbeddingModelError("Failed to load model: "
                                                 \o Get(ctor).msg)))
            /\ UNCHANGED <<_model, nloads>>
       ELSE /\ _model' = Some([id |-> nloads + 1, device |-> Get(call[t].device),
                               dim |-> fs.dim])
            /\ nloads' = nloads + 1
            /\ pc' = [pc EXCEPT ![t] = "assign"]
            /\ UNCHANGED ret
    /\ UNCHANGED <<_device, call>>
    /\ ThreadFrame

\* line 226: _device = device
T_AssignDevice(t) ==
    /\ pc[t] = "assign"
    /\ _device' = call[t].device
    /\ pc' = [pc EXCEPT ![t] = "verify"]
    /\ UNCHANGED <<_model, nloads, call, ret>>
    /\ ThreadFrame

\* lines 229-234: the dimension of the global _model, as it is now
T_Verify(t) ==
    /\ pc[t] = "verify"
    /\ IF Get(_model).dim # EMBEDDING_DIM
       THEN ThreadEnds(t, None, Some(EmbeddingModelError(
                "Wrong embedding dimension: " \o ToString(Get(_model).dim)
                \o ", expected " \o ToString(EMBEDDING_DIM))))
       ELSE pc' = [pc EXCEPT ![t] = "return"] /\ UNCHANGED ret
    /\ UNCHANGED <<_model, _device, nloads, call>>
    /\ ThreadFrame

\* line 237: return _model, the global as it is now
T_Return(t) ==
    /\ pc[t] = "return"
    /\ ThreadEnds(t, _model, None)
    /\ UNCHANGED <<_model, _device, nloads, call>>
    /\ ThreadFrame

ThreadNext ==
    \/ \E t \in Threads, requested \in ThreadRequests : T_Resolve(t, requested)
    \/ \E t \in Threads : T_Check(t)
    \/ \E t \in Threads : T_ReturnCached(t)
    \/ \E t \in Threads : T_CheckFiles(t)
    \/ \E t \in Threads, ctor \in CtorOutcomes : T_Construct(t, ctor)
    \/ \E t \in Threads : T_AssignDevice(t)
    \/ \E t \in Threads : T_Verify(t)
    \/ \E t \in Threads : T_Return(t)

ThreadSpec == ThreadInit /\ [][ThreadNext]_vars

\* embed_with_oom_recovery on its own: a fresh process has just called it with
\* chunks, an initial batch size and a device, and is at the head of the loop
LoopInit ==
    /\ hw \in HwStates
    /\ fs \in {f \in FsStates :
                 /\ (~f.dir => f.files = {})
                 /\ (f.files # Range(REQUIRED) => f.dim = EMBEDDING_DIM)}
    /\ _model = None
    /\ _device = None
    /\ nloads = 0
    /\ pc = "loop"
    /\ \E chunks \in ChunkLists, bs \in BatchSizes, device \in Requests :
          /\ call = [chunks |-> chunks, batch_size |-> bs, device |-> device,
                     entry |-> [model |-> None, device |-> None, nloads |-> 0],
                     cli |-> None, stdin |-> None, cuda_ops |-> <<>>]
          /\ batch_size = bs
    /\ attempts = <<>>
    /\ last_exc = None
    /\ ewr = None
    /\ ret = [op |-> "none"]

\* The loop runs until the function returns or raises
LoopNext ==
    \/ \E ctor \in CtorOutcomes, enc \in EncodeOutcomes : Attempt(ctor, enc)
    \/ Exhausted

\* The calling thread keeps executing: an iteration that can be taken is
\* taken, each embed_chunks call returning or raising
LoopSpec == LoopInit /\ [][LoopNext]_vars /\ WF_vars(LoopNext)

-----------------------------------------------------------------------------
(* Properties *)

\* The device the documented priority CUDA > MPS > CPU selects
AutoChoice ==
    IF hw.cuda THEN "cuda:0" ELSE IF hw.mps = "available" THEN "mps" ELSE "cpu"

Last(s) == s[Len(s)]

\* The messages of EncodeOutcomes that contain "out of memory" in some casing
OomMessages ==
    {"CUDA out of memory. Tried to allocate 2.00 GiB", "CUDA error: Out Of Memory"}

\* C1: in every hardware state resolve_device("auto") returns "cuda:0" when
\* CUDA is available (MPS available or not), otherwise "mps" when MPS is
\* available, otherwise "cpu", and nothing else.
C1_AutoPriority ==
    (ret.op = "resolve_device" /\ ret.requested = "auto")
        => /\ ret.value = AutoChoice
           /\ ret.value \in {"cuda:0", "mps", "cpu"}

C1_Witness ==
    /\ ret.op = "resolve_device" /\ ret.requested = "auto"
    /\ hw.cuda /\ hw.mps = "available"
    /\ ret.value = "cuda:0"

\* C2: a request starting with "cuda", or the request "mps", is returned
\* verbatim when the requested accelerator class is available; when it is not,
\* the result is what resolve_device("auto") gives in that hardware state.
C2_ExplicitAccelerator ==
    (/\ ret.op = "resolve_device"
     /\ (startswith(ret.requested, "cuda") \/ ret.requested = "mps"))
        => LET available == IF ret.requested = "mps" THEN hw.mps = "available"
                            ELSE hw.cuda
           IN  ret.value = IF available THEN ret.requested ELSE AutoChoice

C2_Witness ==
    /\ ret.op = "resolve_device" /\ ret.requested = "cuda:1"
    /\ ~hw.cuda /\ hw.mps = "available"
    /\ ret.value = "mps"

\* C3: a request that is not "auto", not "mps" and does not start with "cuda"
\* is returned unchanged in every hardware state.
C3_PassThrough ==
    (/\ ret.op = "resolve_device"
     /\ ret.requested \notin {"auto", "mps"}
     /\ ~startswith(ret.requested, "cuda"))
        => ret.value = ret.requested

C3_Witness ==
    /\ ret.op = "resolve_device" /\ ret.requested = "xpu:0"
    /\ hw.cuda /\ hw.mps = "available"
    /\ ret.value = "xpu:0"

\* C4: for a non-empty input and an initial batch size n >= 1, when the first
\* k attempts back off and attempt k+1 completes, embed_with_oom_recovery
\* returns (vectors, b) where b = n // 2^k >= 1 is the batch size of the
\* attempt that completed, with one vector per input text.
C4_BackoffReturnsSucceedingSize ==
    (/\ pc = "wrap"
     /\ call.chunks # <<>> /\ call.batch_size >= 1
     /\ attempts # <<>> /\ Last(attempts).outcome = "ok")
        => LET k == Len(attempts) - 1
               b == call.batch_size \div (2 ^ k)
           IN  /\ \A i \in 1..k :
                     /\ attempts[i].outcome = "backoff"
                     /\ attempts[i].batch_size = call.batch_size \div (2 ^ (i - 1))
               /\ b >= 1
               /\ Last(attempts).batch_size = b
               /\ Get(Last(attempts).encoded).batch_size = b
               /\ Get(ewr).kind = "return"
               /\ Get(ewr).batch_size = b
               /\ Len(Get(ewr).embeddings) = Len(call.chunks)

C4_Witness ==
    /\ pc = "wrap"
    /\ Len(call.chunks) = 1 /\ call.batch_size = 4
    /\ Len(attempts) = 3
    /\ attempts[1].outcome = "backoff" /\ attempts[2].outcome = "backoff"
    /\ attempts[3].outcome = "ok"
    /\ Get(ewr).kind = "return" /\ Get(ewr).batch_size = 1
    /\ Len(Get(ewr).embeddings) = 1

\* C5: when every attempt backs off, an initial batch size n >= 1 makes the
\* attempts n, n//2, n//4, ..., 1 in that order, each once and none below 1,
\* and embed_with_oom_recovery then raises GPUOutOfMemoryError.
C5_ExhaustionSequence ==
    /\ \A i \in 1..Len(attempts) :
          /\ attempts[i].batch_size = call.batch_size \div (2 ^ (i - 1))
          /\ attempts[i].batch_size >= 1
          /\ \A j \in 1..(i - 1) : attempts[j].batch_size > attempts[i].batch_size
    /\ (/\ pc = "wrap" /\ call.batch_size >= 1
        /\ \A i \in 1..Len(attempts) : attempts[i].outcome = "backoff")
          => /\ attempts # <<>>
             /\ Last(attempts).batch_size = 1
             /\ Get(ewr).kind = "raise"
             /\ Get(ewr).exc.type = "GPUOutOfMemoryError"

C5_Witness ==
    /\ pc = "wrap" /\ call.batch_size = 4
    /\ Len(attempts) = 3
    /\ attempts[1].batch_size = 4 /\ attempts[2].batch_size = 2
    /\ attempts[3].batch_size = 1
    /\ \A i \in 1..3 : attempts[i].outcome = "backoff"
    /\ Get(ewr).kind = "raise" /\ Get(ewr).exc.type = "GPUOutOfMemoryError"

\* C6: a RuntimeError from the model whose message does not contain
\* "out of memory" in any casing is raised out of the attempt in which it
\* occurs: the batch size is not halved, no further attempt follows and the
\* exception is not turned into GPUOutOfMemoryError.
C6_NonOomRuntimeErrorReraised ==
    (/\ attempts # <<>>
     /\ Last(attempts).encoded # None
     /\ last_exc # None
     /\ Get(last_exc).type = "RuntimeError"
     /\ Get(last_exc).msg \notin OomMessages)
        => /\ pc = "wrap"
           /\ ewr = Some([kind |-> "raise", exc |-> Get(last_exc)])
           /\ batch_size = Last(attempts).batch_size

C6_Witness ==
    /\ pc = "wrap" /\ call.batch_size = 4
    /\ Len(attempts) = 2 /\ attempts[1].outcome = "backoff"
    /\ batch_size = 2
    /\ last_exc = Some(Exc("RuntimeError", "CUDA error: device-side assert triggered"))
    /\ ewr = Some([kind |-> "raise", exc |-> Get(last_exc)])

\* C7: generate_embeddings does not raise; when the embedding step raised
\* (a non-OOM runtime error, GPUOutOfMemoryError, EmbeddingModelError) it
\* returns success = false, no embeddings, count = 0 and the exception's
\* message as error.
C7_FailSoft ==
    ret.op = "generate_embeddings"
        => /\ ~ret.raised
           /\ ret.result # None
           /\ ret.ewr.kind = "raise"
                => /\ Get(ret.result).success = FALSE
                   /\ Get(ret.result).embeddings = <<>>
                   /\ Get(ret.result).count = 0
                   /\ Get(ret.result).error = Some(ret.ewr.exc.msg)

C7_Witness ==
    /\ ret.op = "generate_embeddings"
    /\ ret.ewr.kind = "raise" /\ ret.ewr.exc.type = "RuntimeError"
    /\ ~ret.raised
    /\ Get(ret.result).success = FALSE
    /\ Get(ret.result).error = Some("CUDA error: device-side assert triggered")

\* C8: an empty input with an initial batch size >= 1 returns no vectors and
\* the batch size unchanged, without calling load_model and with the cached
\* model and device untouched; generate_embeddings then returns success,
\* count = 0, no embeddings and ms_per_chunk = 0.
C8_EmptyInput ==
    /\ (pc \in {"loop", "wrap"} /\ call.chunks = <<>> /\ call.batch_size >= 1)
          => /\ _model = call.entry.model
             /\ _device = call.entry.device
             /\ nloads = call.entry.nloads
             /\ \A i \in 1..Len(attempts) : ~attempts[i].load_called
             /\ pc = "wrap"
                  => /\ ewr = Some([kind |-> "return", embeddings |-> <<>>,
                                    batch_size |-> call.batch_size])
                     /\ Len(attempts) = 1
                     /\ attempts[1].encoded = None
    /\ (/\ ret.op = "generate_embeddings"
        /\ ret.call.chunks = <<>> /\ ret.call.batch_size >= 1)
          => /\ ret.after = ret.call.entry
             /\ ~ret.raised
             /\ Get(ret.result).success = TRUE
             /\ Get(ret.result).count = 0
             /\ Get(ret.result).embeddings = <<>>
             /\ Get(ret.result).ms_per_chunk = 0
             /\ Get(ret.result).batch_size = ret.call.batch_size
             /\ Get(ret.result).error = None

C8_Witness ==
    /\ ret.op = "generate_embeddings"
    /\ ret.call.chunks = <<>> /\ ret.call.batch_size = 4
    /\ hw.cuda /\ _model # None
    /\ Get(ret.result).success = TRUE /\ Get(ret.result).count = 0
    /\ Get(ret.result).elapsed_ms > 0

\* What the last load_model call, ret, found and did: it resolved to the
\* cached handle's device (hit); the cache is as it was before the call
\* (reused); the cache holds a newly constructed handle bound to the resolved
\* device (replaced); the directory and artifacts were present and
\* SentenceTransformer(...) returned (loadable).
CacheHit ==
    /\ ret.before.model # None
    /\ ret.before.device = Some(resolve_device(ret.device, hw))

Reused ==
    /\ _model = ret.before.model
    /\ _device = ret.before.device
    /\ nloads = ret.before.nloads

Replaced ==
    /\ nloads = ret.before.nloads + 1
    /\ _model = Some([id |-> nloads, device |-> resolve_device(ret.device, hw),
                      dim |-> fs.dim])
    /\ _model # ret.before.model
    /\ _device = Some(resolve_device(ret.device, hw))

Loadable == fs.dir /\ fs.files = Range(REQUIRED) /\ ret.ctor = None

\* C9 as stated: a load_model call resolving to the cached handle's device
\* returns that handle without constructing a model; a call resolving to a
\* different device constructs a new model and leaves the cache holding the
\* new handle bound to the new device, the old one gone.
C9_DifferentDeviceAlwaysReplaces ==
    ret.op = "load_model"
        => /\ CacheHit
                => Reused /\ ret.ret = ret.before.model /\ ~ret.constructed
           /\ (ret.before.model # None /\ ~CacheHit)
                => Replaced /\ ret.constructed

\* C9 amended: as stated when the load goes through (directory and artifacts
\* present, SentenceTransformer(...) returns); a call for a device that has
\* no cached handle and that fails before a model is constructed raises and
\* leaves the cache as it was, the old handle still in it.
C9_CacheKeyedByResolvedDevice ==
    ret.op = "load_model"
        => /\ CacheHit
                => Reused /\ ret.ret = ret.before.model /\ ~ret.constructed
           /\ (~CacheHit /\ Loadable)
                => Replaced /\ ret.constructed
           /\ (~CacheHit /\ ~Loadable)
                => /\ Reused
                   /\ ret.exc # None /\ ret.ret = None
                   /\ ~ret.constructed

\* on a CUDA machine a call for "cpu" replaced the handle bound to "cuda:0"
C9_Witness ==
    /\ ret.op = "load_model" /\ ret.device = "cpu"
    /\ hw.cuda
    /\ ret.before.model = Some([id |-> 1, device |-> "cuda:0", dim |-> EMBEDDING_DIM])
    /\ ret.before.device = Some("cuda:0")
    /\ ret.constructed
    /\ ret.ret = _model
    /\ _model = Some([id |-> 2, device |-> "cpu", dim |-> EMBEDDING_DIM])
    /\ _device = Some("cpu")

\* C10: load_model never returns a model whose dimension differs from 768,
\* on the call that constructs it or on a later call served from the cache.
C10_NeverReturnsWrongDimension ==
    /\ (ret.op = "load_model" /\ ret.ret # None)
          => Get(ret.ret).dim = EMBEDDING_DIM
    /\ \A i \in 1..Len(attempts) :
          attempts[i].encoded # None
            => Get(Get(attempts[i].encoded).model).dim = EMBEDDING_DIM

\* C11: a load_model call that finds no cached handle for the resolved device
\* checks the model directory first and the three required files second;
\* when either check fails it raises EmbeddingModelError carrying MODEL_PATH,
\* constructs no model and leaves the cached model and device as they were.
C11_LoadPreconditions ==
    (ret.op = "load_model" /\ ~CacheHit)
        => /\ ~fs.dir
                => /\ ret.exc # None
                   /\ startswith(Get(ret.exc).msg, "Model not found at " \o MODEL_PATH)
           /\ (fs.dir /\ fs.files # Range(REQUIRED))
                => /\ ret.exc # None
                   /\ startswith(Get(ret.exc).msg, "Missing model files: [")
                   /\ \A x \in Range(REQUIRED) :
                         contains(Get(ret.exc).msg, "'" \o x \o "'") <=> x \notin fs.files
           /\ (~fs.dir \/ fs.files # Range(REQUIRED))
                => /\ Get(ret.exc).type = "EmbeddingModelError"
                   /\ Get(ret.exc).model_path = Some(MODEL_PATH)
                   /\ ret.ret = None
                   /\ ~ret.constructed
                   /\ Reused

\* a handle bound to "cpu" is cached, the tokenizer file is then
\* removed, and a call for "xpu:0" raises and leaves the "cpu" handle cached
C11_Witness ==
    /\ ret.op = "load_model" /\ ret.device = "xpu:0"
    /\ ret.before.model = Some([id |-> 1, device |-> "cpu", dim |-> EMBEDDING_DIM])
    /\ fs.dir /\ fs.files = {"config.json", "model.safetensors"}
    /\ ret.exc = Some(EmbeddingModelError("Missing model files: ['tokenizer.json']"))
    /\ _model = ret.before.model /\ _device = Some("cpu") /\ nloads = 1

\* C14: verify_gpu never raises GPUNotAvailableError; whenever torch reports
\* CUDA unavailable (MPS available or not) it returns available = false,
\* vram_gb = vram_used_gb = vram_free_gb = 0 and a name containing the device
\* detect_best_device returns in that hardware state ("mps" or "cpu").
C14_VerifyGpuGraceful ==
    ret.op = "verify_gpu"
        => /\ ret.exc # None => Get(ret.exc).type # "GPUNotAvailableError"
           /\ (ret.torch /\ ~hw.cuda)
                => /\ ret.exc = None
                   /\ Get(ret.ret).available = FALSE
                   /\ Get(ret.ret).vram_gb = 0
                   /\ Get(ret.ret).vram_used_gb = 0
                   /\ Get(ret.ret).vram_free_gb = 0
                   /\ contains(Get(ret.ret).name, detect_best_device(TRUE, hw))
                   /\ detect_best_device(TRUE, hw) = AutoChoice
                   /\ ret.ops = <<>>

C14_Witness ==
    /\ ret.op = "verify_gpu" /\ ret.torch
    /\ ~hw.cuda /\ hw.mps = "available"
    /\ ret.exc = None
    /\ Get(ret.ret).available = FALSE
    /\ Get(ret.ret).name = "No CUDA GPU (best device: mps)"

\* C15: whenever torch reports CUDA unavailable, get_vram_usage and
\* clear_gpu_memory each raise GPUNotAvailableError itself (no GPUError
\* wrapper, no default record) and make no torch.cuda memory call.
C15_FailFast ==
    (/\ ret.op \in {"get_vram_usage", "clear_gpu_memory"}
     /\ ret.torch /\ ~hw.cuda)
        => /\ ret.exc # None
           /\ Get(ret.exc).type = "GPUNotAvailableError"
           /\ ret.ops = <<>>
           /\ ret.op = "get_vram_usage" => ret.ret = None

C15_Witness ==
    /\ ret.op = "clear_gpu_memory" /\ ret.torch
    /\ ~hw.cuda /\ hw.mps = "available"
    /\ ret.exc = Some(GPUNotAvailableError("Cannot clear GPU memory: CUDA not available"))
    /\ ret.ops = <<>>

C17_QueryFailSoft ==
    ret.op = "generate_query_embedding"
        => /\ ~ret.raised
           /\ ret.result # None
           /\ Len(ret.encoded) <= 1
           /\ nloads <= ret.before.nloads + 1
           /\ Get(ret.result).success <=> ret.cause = None
           /\ ret.cause # None
                => /\ Get(ret.result).embedding = <<>>
                   /\ Get(ret.result).device = resolve_device(ret.device, hw)
                   /\ Get(ret.result).error = Some(Get(ret.cause).msg)

C17_Witness ==
    /\ ret.op = "generate_query_embedding" /\ ret.device = "cuda:1"
    /\ hw.cuda
    /\ Len(ret.encoded) = 1
    /\ ret.cause = Some(Exc("OutOfMemoryError",
                            "CUDA out of memory. Tried to allocate 2.00 GiB"))
    /\ ~ret.raised
    /\ Get(ret.result).success = FALSE
    /\ Get(ret.result).device = "cuda:1"
    /\ Get(ret.result).error = Some("CUDA out of memory. Tried to allocate 2.00 GiB")

\* C18: for every initial batch size, embed_with_oom_recovery raises
\* GPUOutOfMemoryError only after an attempt at the minimum batch size has
\* been made and has failed with an out-of-memory signal.
C18_OomOnlyAfterMinimumAttempt ==
    (/\ pc = "wrap"
     /\ Get(ewr).kind = "raise"
     /\ Get(ewr).exc.type = "GPUOutOfMemoryError")
        => /\ attempts # <<>>
           /\ Last(attempts).batch_size = MIN_BATCH_SIZE
           /\ Last(attempts).outcome = "backoff"

\* C19: every EmbeddingResult is consistent: success implies count = number
\* of inputs = number of embeddings and no error; failure implies no
\* embeddings, count 0 and an error; in both cases device is the resolved
\* device, batch_size is the size of the last attempt made, and vram_used_gb
\* is 0 when the resolved device is not a CUDA device.
C19_ResultConsistent ==
    (ret.op = "generate_embeddings" /\ ~ret.raised)
        => LET r == Get(ret.result)
           IN  /\ r.success
                    => /\ r.count = Len(ret.call.chunks)
                       /\ r.count = Len(r.embeddings)
                       /\ r.error = None
               /\ ~r.success
                    => /\ r.embeddings = <<>>
                       /\ r.count = 0
                       /\ r.error # None
               /\ r.device = resolve_device(ret.call.device, hw)
               /\ ret.attempts # <<>>
                    => r.batch_size = Last(ret.attempts).batch_size
               /\ ~startswith(r.device, "cuda") => r.vram_used_gb = 0

\* C20: whenever an attempt at batch size b raised torch.cuda.OutOfMemoryError
\* or MemoryError (whatever the message) or a RuntimeError whose message
\* contains "out of memory", the batch size becomes b // 2 and what follows
\* is a retry at that size, or GPUOutOfMemoryError when b // 2 < 1.
C20_EveryOomSignalBacksOff ==
    (/\ attempts # <<>>
     /\ last_exc # None
     /\ \/ Get(last_exc).type \in {"OutOfMemoryError", "MemoryError"}
        \/ Get(last_exc).type = "RuntimeError" /\ Get(last_exc).msg \in OomMessages)
        => /\ batch_size = Last(attempts).batch_size \div 2
           /\ \/ pc = "loop" /\ ewr = None
              \/ /\ pc = "wrap"
                 /\ batch_size < MIN_BATCH_SIZE
                 /\ Get(ewr).kind = "raise"
                 /\ Get(ewr).exc.type = "GPUOutOfMemoryError"

\* C12 as stated: every run of main past argument parsing writes exactly one
\* JSON document to standard output, whatever the input mode and the flags.
C12_AlwaysOneJsonDocument ==
    ret.op = "main"
        => Len(ret.stdout) = 1 /\ ret.stdout[1].kind = "json"

\* C12 amended: with --json every run of main past argument parsing writes
\* exactly one JSON document and nothing else to standard output (the result
\* record with device_used added, or the error envelope when an exception
\* reached main); without --json it writes no JSON document: text lines on
\* success, nothing on failure (the message goes to standard error).
C12_OneJsonDocumentWithJsonFlag ==
    ret.op = "main"
        => /\ ret.args.json
                => /\ Len(ret.stdout) = 1
                   /\ ret.stdout[1].kind = "json"
                   /\ ret.stdout[1].doc.success = (ret.exit = 0)
                   /\ ret.exc # None => ret.stdout[1].doc.error = Get(ret.exc).msg
                   /\ ret.stderr = <<>>
           /\ ~ret.args.json
                => /\ \A i \in 1..Len(ret.stdout) : ret.stdout[i].kind = "text"
                   /\ (ret.stdout = <<>>) <=> (ret.exit = 1)
                   /\ (ret.stderr # <<>>) <=> (ret.exit = 1)

C12_Witness ==
    /\ ret.op = "main" /\ ret.args.json /\ ret.args.mode = "stdin"
    /\ ret.exc = Some(Exc("ValueError", "stdin must be a JSON array of strings"))
    /\ ret.stdout = <<JsonDoc([success |-> FALSE,
                               error |-> "stdin must be a JSON array of strings",
                               error_type |-> "ValueError"])>>
    /\ ret.exit = 1

\* C13: main exits with status 0 exactly when it produced a result record
\* with success = true, and with status 1 when the record has success = false
\* or when an exception reached main.
C13_ExitStatus ==
    ret.op = "main"
        => /\ ret.exit \in {0, 1}
           /\ (ret.exit = 0) <=> (ret.result # None /\ Get(ret.result).success)
           /\ (ret.result # None /\ ~Get(ret.result).success) => ret.exit = 1
           /\ ret.exc # None => ret.exit = 1

C13_Witness ==
    /\ ret.op = "main" /\ ~ret.args.json /\ ret.args.mode = "stdin"
    /\ ret.exc = Some(Exc("JSONDecodeError", "Expecting value: line 1 column 1 (char 0)"))
    /\ ret.result = None
    /\ ret.exit = 1

\* An attempt in which load_model was called and raised
LoadFailed(a) == a.load_called /\ a.encoded = None /\ a.outcome # "ok"

\* C21: when load_model fails during an attempt of embed_with_oom_recovery
\* (missing artifacts, dimension mismatch, or an exception of the constructor,
\* an out-of-memory error included), the exception leaves the loop from that
\* attempt, the first one: it is an EmbeddingModelError (or the
\* GPUNotAvailableError load_model passes through), load_model is not called
\* again and the batch size is not halved.
C21_LoadFailureNotRetried ==
    \A i \in 1..Len(attempts) :
        LoadFailed(attempts[i])
            => /\ i = 1 /\ Len(attempts) = 1
               /\ attempts[i].outcome = "propagate"
               /\ pc = "wrap"
               /\ batch_size = call.batch_size
               /\ last_exc # None
               /\ Get(last_exc).type \in {"EmbeddingModelError", "GPUNotAvailableError"}
               /\ ewr = Some([kind |-> "raise", exc |-> Get(last_exc)])

C21_Witness ==
    /\ pc = "wrap" /\ call.batch_size = 4 /\ batch_size = 4
    /\ Len(attempts) = 1 /\ LoadFailed(attempts[1])
    /\ last_exc = Some(EmbeddingModelError("Failed to load model: CUDA out of memory."))
    /\ _model = None

\* the input of the running call with the document prefix on every item
PrefixedInput == [j \in 1..Len(call.chunks) |-> PREFIX_DOCUMENT \o call.chunks[j]]

OnePrefix(t, x, p, q) ==
    /\ t = p \o x
    /\ ~startswith(t, q)
    /\ ~startswith(SubSeq(t, Len(p) + 1, Len(t)), p)

\* C23: every text of every attempt on the chunk path is the input text
\* behind "search_document: ", once, and the single text of the query path is
\* the query behind "search_query: ", once; no path sends an unprefixed text
\* or the other path's prefix.
C23_TaskPrefix ==
    /\ \A i \in 1..Len(attempts) :
          attempts[i].encoded # None
            => \A j \in 1..Len(Get(attempts[i].encoded).texts) :
                  OnePrefix(Get(attempts[i].encoded).texts[j], call.chunks[j],
                            PREFIX_DOCUMENT, PREFIX_QUERY)
    /\ ret.op = "generate_query_embedding"
          => \A k \in 1..Len(ret.encoded) :
                /\ Len(ret.encoded[k].texts) = 1
                /\ OnePrefix(ret.encoded[k].texts[1], ret.query,
                             PREFIX_QUERY, PREFIX_DOCUMENT)

C23_Witness ==
    /\ ret.op = "generate_query_embedding"
    /\ Len(ret.encoded) = 1
    /\ ret.encoded[1].texts = <<"search_query: what is provenance">>
    /\ Get(ret.result).success

\* C24: torch.cuda.reset_peak_memory_stats, torch.cuda.empty_cache and
\* torch.cuda.max_memory_allocated are invoked only by a call whose resolved
\* device starts with "cuda": a call resolving elsewhere (a "cuda" request
\* that fell back to "cpu" included) invokes none of them, before the first
\* attempt, in any attempt, on any retry, or when the result is built.
C24_CudaOpsOnlyOnCuda ==
    /\ ~startswith(resolve_device(call.device, hw), "cuda")
          => /\ call.cuda_ops = <<>>
             /\ \A i \in 1..Len(attempts) : attempts[i].cuda_ops = <<>>
    /\ (ret.op = "generate_embeddings"
          /\ ~startswith(resolve_device(ret.call.device, hw), "cuda"))
          => /\ ret.call.cuda_ops = <<>>
             /\ \A i \in 1..Len(ret.attempts) : ret.attempts[i].cuda_ops = <<>>
             /\ ~ret.peak_read
             /\ Get(ret.result).vram_used_gb = 0

C24_Witness ==
    /\ ret.op = "generate_embeddings"
    /\ ret.call.device = "cuda:0" /\ ~hw.cuda
    /\ Get(ret.result).device = "cpu"
    /\ Len(ret.attempts) = 2
    /\ ret.attempts[1].outcome = "backoff" /\ ret.attempts[2].outcome = "ok"
    /\ Get(ret.result).success

\* floor(log2(n)) for n >= 1
Log2Floor(n) == CHOOSE k \in 0..n : 2^k <= n /\ n < 2^(k + 1)

\* The three ways embed_with_oom_recovery ends
ReturnsAtFirstCompletion ==
    /\ Get(ewr).kind = "return"
    /\ Last(attempts).outcome = "ok"
    /\ Get(ewr).batch_size = Last(attempts).batch_size
    /\ \A i \in 1..(Len(attempts) - 1) : attempts[i].outcome = "backoff"

PropagatesError ==
    /\ Get(ewr).kind = "raise"
    /\ Last(attempts).outcome \in {"propagate", "reraise"}
    /\ last_exc = Some(Get(ewr).exc)
    /\ Get(ewr).exc.type # "GPUOutOfMemoryError"
    /\ \A i \in 1..(Len(attempts) - 1) : attempts[i].outcome = "backoff"

RaisesGPUOutOfMemoryError ==
    /\ Get(ewr).kind = "raise"
    /\ Get(ewr).exc.type = "GPUOutOfMemoryError"
    /\ \A i \in 1..Len(attempts) : attempts[i].outcome = "backoff"
    /\ batch_size < MIN_BATCH_SIZE

LoopBounded ==
    call.batch_size >= 1
      => /\ Len(attempts) <= Log2Floor(call.batch_size) + 1
         /\ \A i \in 1..(Len(attempts) - 1) :
               attempts[i + 1].batch_size < attempts[i].batch_size
         /\ pc = "loop" => ewr = None
         /\ pc = "wrap"
              => /\ Len(attempts) >= 1
                 /\ \/ ReturnsAtFirstCompletion /\ ~PropagatesError
                          /\ ~RaisesGPUOutOfMemoryError
                    \/ ~ReturnsAtFirstCompletion /\ PropagatesError
                          /\ ~RaisesGPUOutOfMemoryError
                    \/ ~ReturnsAtFirstCompletion /\ ~PropagatesError
                          /\ RaisesGPUOutOfMemoryError

AvailableDevices(h) ==
    {"cpu"} \cup {CudaDevices[i] : i \in 1..h.device_count}
            \cup (IF mps_is_available(h) THEN {"mps"} ELSE {})

\* The requests resolve_device knows: "auto", CUDA devices, "mps" and "cpu"
Recognized(requested) ==
    requested \in {"auto", "mps", "cpu"} \/ startswith(requested, "cuda")

\* C26: resolve_device returns a device that is available on the machine, or
\* an unrecognized request verbatim; "cuda:1" is returned only on a machine
\* that has a CUDA device 1.
C26_ReturnsAvailableOrPassThrough ==
    ret.op = "resolve_device"
      => \/ ret.value \in AvailableDevices(hw)
         \/ ~Recognized(ret.requested) /\ ret.value = ret.requested

\* A payload that is not a JSON array of strings
BadPayload(d) == d.kind # "list" \/ ~d.strings

\* C27: in --stdin mode a payload that is not valid JSON, not an array, or an
\* array with a non-string element makes main exit with status 1 and a
\* failure envelope (with --json: success = false and the error message),
\* without resolving a device, loading the model or calling the model.
C27_StdinPayloadValidated ==
    (ret.op = "main" /\ ret.args.mode = "stdin" /\ BadPayload(ret.stdin))
        => /\ ret.exit = 1
           /\ ret.args.json
                => /\ Len(ret.stdout) = 1
                   /\ ret.stdout[1].kind = "json"
                   /\ ~ret.stdout[1].doc.success
                   /\ ret.stdout[1].doc.error # ""
           /\ ~ret.resolved
           /\ ret.loads = 0
           /\ ret.encode_calls = 0

\* a result record of the query path has no per-chunk fields
QueryShaped(r) == "count" \notin DOMAIN r /\ "ms_per_chunk" \notin DOMAIN r

\* C28: the flag given selects the path: with --query, whatever its value
\* (the empty string included), main runs generate_query_embedding and
\* reports a query-shaped result; with --chunks or --stdin it runs the chunk
\* path; generate_embeddings is never called with None for the text list.
C28_FlagSelectsPath ==
    ret.op = "main"
        => /\ ret.args.mode = "query"
                => /\ ret.path = "query"
                   /\ ret.result # None => QueryShaped(Get(ret.result))
           /\ ret.args.mode \in {"chunks", "stdin"}
                => /\ ret.path \in {"chunks", "none"}
                   /\ ret.result # None => ~QueryShaped(Get(ret.result))
           /\ ~ret.absent

\* C29: with concurrent callers of load_model the cache is never seen
\* mid-swap: whenever a model is cached, the cached device names the device
\* that model was loaded on, and a caller that gets a model gets one bound to
\* the device its own request resolved to.
C29_NoMidSwap ==
    /\ _model # None => _device = Some(Get(_model).device)
    /\ \A t \in Threads :
          (pc[t] = "done" /\ Get(ret[t]).exc = None)
            => Get(Get(ret[t]).value).device = Get(call[t].device)

\* C30: in a process where torch can be imported, gpu_utils'
\* detect_best_device() returns, in every hardware state, the string
\* embedding_worker's resolve_device("auto") returns there.
C30_DetectorsAgree ==
    (ret.op = "detect_best_device" /\ ret.torch)
        => /\ ret.value = resolve_device("auto", hw)
           /\ ret.value = resolve_device(DEFAULT_DEVICE, hw)
           /\ ret.value \in {"cuda:0", "mps", "cpu"}

C30_Witness ==
    /\ ret.op = "detect_best_device" /\ ret.torch
    /\ ~hw.cuda /\ hw.mps = "available"
    /\ ret.value = "mps"
    /\ resolve_device("auto", hw) = "mps"

====
